---- MODULE Spec2Model ----
(***************************************************************************)
(* Cost roll-up of create_excel_file (src/change_order_generator.py).      *)
(*                                                                         *)
(* data is the parsed job description: a dict from category keys to lists  *)
(* of line items, each line item a dict from attribute names to numbers.   *)
(* A dict is a function whose DOMAIN is the set of keys that are present,  *)
(* so a missing key and a key holding 0 (or an empty list) are different   *)
(* inputs.                                                                 *)
(*                                                                         *)
(* Money is counted in cents and every price of the input is a whole       *)
(* number of dollars, so the percentages of the roll-up (10, 5 and 3 per   *)
(* cent) are exact; quantities, workers, hours and days are integers.      *)
(* The code works on Python floats; binary rounding is not modelled.       *)
(* The cells of the sheet hold formatted text; the model records the       *)
(* number each monetary cell is formatted from.                            *)
(*                                                                         *)
(* strings is the set of positions <<category, index, attribute>> of data  *)
(* at which the JSON holds a string instead of a number (the number data   *)
(* holds there is then not read).  past records the calls that have        *)
(* returned.  reqs, files, bucket and now are the state of the web service *)
(* of src/api.py and src/api_vercel.py and of main(): the requests, the    *)
(* local files, the objects of the storage bucket and the wall clock.      *)
(***************************************************************************)
EXTENDS Integers, Sequences, FiniteSets, TLC

VARIABLES data, pc, locals, ws, result, strings, past, ncalls,
          reqs, files, bucket, now

callVars == <<strings, ncalls>>

apiVars == <<reqs, files, bucket, now>>

vars == <<data, pc, locals, ws, result, past, callVars, apiVars>>

(***************************************************************************)
(* Bounds of the model                                                     *)
(***************************************************************************)
\* largest number of line items in one input, all categories together
MaxItems == 2

Dollars(n) == n * 100

(***************************************************************************)
(* Python helpers                                                          *)
(***************************************************************************)
\* dict.get(key, default)
Get(d, key, default) == IF key \in DOMAIN d THEN d[key] ELSE default

\* truth value of data.get(key): the key is present and its list is not empty
Truthy(d, key) == key \in DOMAIN d /\ Len(d[key]) > 0

Min(a, b) == IF a <= b THEN a ELSE b

Max(a, b) == IF a >= b THEN a ELSE b

\* sum(...) over a sequence of numbers
RECURSIVE Sum(_)
Sum(s) == IF Len(s) = 0 THEN 0 ELSE Head(s) + Sum(Tail(s))

\* x * rate, the rate given in per cent (0.10 is 10)
Pct(x, rate) == (x * rate) \div 100

\* name = value in the frame of the running call
Assign(f, name, value) ==
    [n \in (DOMAIN f) \cup {name} |-> IF n = name THEN value ELSE f[n]]

Restrict(f, S) == [k \in S |-> f[k]]

(***************************************************************************)
(* Constants of the roll-up                                                *)
(***************************************************************************)
tier1_limit == Dollars(10000)

tier2_limit == Dollars(99000)

tier1_rate == 10

tier2_rate == 5

tier3_rate == 3

overhead_rate == 10

profit_rate == 10

output_file == "change_order.xlsx"

(***************************************************************************)
(* Line totals and subtotals                                               *)
(***************************************************************************)
\* variant: the price read under the subcontractor rows' key
UnitPriceTotal_PriceKey(item) == Get(item, "qty", 0) * Get(item, "price", 0)

\* variant: the rental duration multiplied into the line total
UnitPriceTotal_TimesDuration(item) ==
    Get(item, "qty", 0) * Get(item, "unit_price", 0) * Get(item, "duration", 1)

\* item.get('qty', 0) * item.get('unit_price', 0)
UnitPriceTotal(item) == Get(item, "qty", 0) * Get(item, "unit_price", 0)

\* variant: a missing days attribute counted as one day
TotalHours_DaysDefaultOne(item) ==
    Get(item, "workers", 0) * Get(item, "hours_per_day", 0) * Get(item, "days", 1)

\* item.get('workers', 0) * item.get('hours_per_day', 0) * item.get('days', 0)
TotalHours(item) ==
    Get(item, "workers", 0) * Get(item, "hours_per_day", 0) * Get(item, "days", 0)

\* total_hours * item.get('hourly_rate', 0)
LaborLineTotal(item) == TotalHours(item) * Get(item, "hourly_rate", 0)

\* item.get('qty', 0) * item.get('price', 0)
SubcontractorLineTotal(item) == Get(item, "qty", 0) * Get(item, "price", 0)

\* sum(item.get('qty', 0) * item.get('unit_price', 0) for item in data.get(key, []))
CategoryTotal(d, key) ==
    LET items == Get(d, key, <<>>)
    IN  Sum([i \in 1..Len(items) |-> UnitPriceTotal(items[i])])

\* variant: the subtotal loop drifting from the row loop (days left out)
LaborTotal_NoDays(d) ==
    LET items == Get(d, "labor", <<>>)
    IN  Sum([i \in 1..Len(items) |->
               Get(items[i], "workers", 0) * Get(items[i], "hours_per_day", 0)
               * Get(items[i], "hourly_rate", 0)])

\* labor_total = 0; for item in data.get('labor', []): labor_total += ...
LaborTotal(d) ==
    LET items == Get(d, "labor", <<>>)
    IN  Sum([i \in 1..Len(items) |-> TotalHours(items[i]) * Get(items[i], "hourly_rate", 0)])

\* sum(item.get('qty', 0) * item.get('price', 0) for item in data.get('subcontractors', []))
SubcontractorTotal(d) ==
    LET items == Get(d, "subcontractors", <<>>)
    IN  Sum([i \in 1..Len(items) |-> SubcontractorLineTotal(items[i])])

(***************************************************************************)
(* Tiered overhead and profit on the subcontractors' work                  *)
(***************************************************************************)
\* variant: a negative subtotal clamped to 0
Tier1Amount_Clamped(s) == Max(0, Min(s, tier1_limit))

Tier1Amount(s) == Min(s, tier1_limit)

\* variant: the second tier capped at its upper limit instead of its width
Tier2Amount_NoBandWidth(s) == Min(Max(0, s - tier1_limit), tier2_limit)

\* variant: the second tier taken on the whole subtotal, not on the excess
Tier2Amount_NotMarginal(s) == Min(Max(0, s), tier2_limit - tier1_limit)

Tier2Amount(s) == Min(Max(0, s - tier1_limit), tier2_limit - tier1_limit)

\* variant: the third tier starting at the first limit
Tier3Amount_FromTier1Limit(s) == Max(0, s - tier1_limit)

\* variant: the third tier without its floor at 0
Tier3Amount_NoFloor(s) == s - tier2_limit

Tier3Amount(s) == Max(0, s - tier2_limit)

\* variant: the third tier charged at the second tier's rate on the 'B' row
OhpTotal_Tier3AtTier2Rate(t1, t2, t3) ==
    Pct(t1, tier1_rate) + Pct(t2, tier2_rate) + Pct(t3, tier2_rate)

\* the 'B' row: from the tier amounts and rates
OhpTotal(t1, t2, t3) ==
    Pct(t1, tier1_rate) + Pct(t2, tier2_rate) + Pct(t3, tier3_rate)

\* variant: the literals of the second computation drifting from the limits
OhpInline_Drift(s) ==
    Pct(Min(s, Dollars(10000)), 10)
  + Pct(Min(Max(0, s - Dollars(10000)), Dollars(90000)), 5)
  + Pct(Max(0, s - Dollars(99000)), 3)

\* the grand total's own computation, with the literals 10000, 89000, 99000
OhpInline(s) ==
    Pct(Min(s, Dollars(10000)), 10)
  + Pct(Min(Max(0, s - Dollars(10000)), Dollars(89000)), 5)
  + Pct(Max(0, s - Dollars(99000)), 3)

\* total_direct_cost = materials_total + equipment_total + labor_total + general_req_total
TotalDirectCost(m, e, l, g) == m + e + l + g

(***************************************************************************)
(* Inputs                                                                  *)
(***************************************************************************)
Categories == {"materials", "equipment", "labor", "subcontractors", "general_requirements"}

Partial(bases, keys) == { Restrict(b, S) : b \in bases, S \in SUBSET keys }

MaterialItems ==
    Partial([qty : {-1, 2}, unit_price : {Dollars(100)}], {"qty", "unit_price"})

\* duration and duration_unit are optional; the unit is a text label
EquipmentItems ==
    Partial([qty : {0, 3}, unit_price : {Dollars(-40)}], {"qty", "unit_price"})
    \cup { [qty |-> 3, unit_price |-> Dollars(-40), duration |-> 2, duration_unit |-> "days"],
           [qty |-> 3, unit_price |-> Dollars(-40), duration |-> 7, duration_unit |-> "days"],
           [qty |-> 3, unit_price |-> Dollars(-40), duration |-> 7, duration_unit |-> "weeks"],
           [qty |-> 3, unit_price |-> Dollars(-40), duration |-> 7] }

GeneralRequirementItems ==
    Partial([qty : {1}, unit_price : {Dollars(250)}], {"qty", "unit_price"})

LaborKeys == {"workers", "hours_per_day", "days", "hourly_rate"}

LaborItems ==
    { Restrict([workers |-> 2, hours_per_day |-> 8, days |-> 5, hourly_rate |-> Dollars(50)], S) :
        S \in { K \in SUBSET LaborKeys : Cardinality(K) # 2 } }
    \cup { [workers |-> 1, hours_per_day |-> 4, days |-> 3, hourly_rate |-> Dollars(-20)] }

SubcontractorItems ==
    [qty : {1}, price : {Dollars(1), Dollars(10000), Dollars(50000), Dollars(99000), Dollars(-5000)}]
    \cup { [qty |-> 3, price |-> Dollars(50000)],
           [price |-> Dollars(10000)],
           [qty |-> 1] }

ItemsOf(key) ==
    CASE key = "materials" -> MaterialItems
      [] key = "equipment" -> EquipmentItems
      [] key = "labor" -> LaborItems
      [] key = "subcontractors" -> SubcontractorItems
      [] key = "general_requirements" -> GeneralRequirementItems

\* the lists of at most n items of a category
Lists(key, n) == UNION { [1..k -> ItemsOf(key)] : k \in 0..n }

TotalItems(d) ==
    Len(Get(d, "materials", <<>>)) + Len(Get(d, "equipment", <<>>))
  + Len(Get(d, "labor", <<>>)) + Len(Get(d, "subcontractors", <<>>))
  + Len(Get(d, "general_requirements", <<>>))

\* the attributes of a line item that the roll-up multiplies
NumericKeys(k) ==
    CASE k = "labor" -> LaborKeys
      [] k = "subcontractors" -> {"qty", "price"}
      [] OTHER -> {"qty", "unit_price"}

(***************************************************************************)
(* create_excel_file(data)                                                 *)
(***************************************************************************)
\* the section of category k formats or multiplies a value that is a string:
\* f"{x:.2f}" raises ValueError and str * float raises TypeError
ReadsString(k) ==
    \E pos \in strings : pos[1] = k /\ pos[3] \in NumericKeys(k)

\* no request is being served
ApiIdle ==
    /\ reqs = <<>>
    /\ files = <<>>
    /\ bucket = <<>>
    /\ now = 0

Init ==
    /\ \E m \in Lists("materials", MaxItems) :
       \E e \in Lists("equipment", MaxItems - Len(m)) :
       \E l \in Lists("labor", MaxItems - Len(m) - Len(e)) :
       \E s \in Lists("subcontractors", MaxItems - Len(m) - Len(e) - Len(l)) :
       \E g \in Lists("general_requirements", MaxItems - Len(m) - Len(e) - Len(l) - Len(s)) :
       \E absent \in SUBSET Categories :
          LET full == [materials |-> m, equipment |-> e, labor |-> l,
                       subcontractors |-> s, general_requirements |-> g]
          IN  /\ \A k \in absent : Len(full[k]) = 0
              /\ data = Restrict(full, Categories \ absent)
    /\ pc = "materials"
    /\ locals = <<>>
    /\ ws = <<>>
    /\ result = "running"
    /\ strings = {}
    /\ past = <<>>
    /\ ncalls = 1
    /\ ApiIdle

\* the rows of a section: the value of `total` on each row
UnitPriceRows(d, key) ==
    LET items == Get(d, key, <<>>)
    IN  [i \in 1..Len(items) |-> UnitPriceTotal(items[i])]

\* the value of `total_hours` on each labor row
LaborHoursRows(d) ==
    LET items == Get(d, "labor", <<>>)
    IN  [i \in 1..Len(items) |-> TotalHours(items[i])]

\* the value of `total` on each labor row
LaborRows(d) ==
    LET items == Get(d, "labor", <<>>)
    IN  [i \in 1..Len(items) |-> LaborLineTotal(items[i])]

\* the value of `total` on each subcontractor row
SubcontractorRows(d) ==
    LET items == Get(d, "subcontractors", <<>>)
    IN  [i \in 1..Len(items) |-> SubcontractorLineTotal(items[i])]

MaterialsSection ==
    /\ pc = "materials"
    /\ ~ReadsString("materials")
    /\ ws' = Assign(Assign(ws, "materials_rows", UnitPriceRows(data, "materials")),
                    "materials_total_cell", CategoryTotal(data, "materials"))
    /\ pc' = "equipment"
    /\ UNCHANGED <<data, locals, result, past, callVars, apiVars>>

EquipmentSection ==
    /\ pc = "equipment"
    /\ ~ReadsString("equipment")
    /\ ws' = Assign(Assign(ws, "equipment_rows", UnitPriceRows(data, "equipment")),
                    "equipment_total_cell", CategoryTotal(data, "equipment"))
    /\ pc' = "labor"
    /\ UNCHANGED <<data, locals, result, past, callVars, apiVars>>

LaborSection ==
    /\ pc = "labor"
    /\ ~ReadsString("labor")
    /\ ws' = Assign(Assign(Assign(ws,
                    "labor_hours", LaborHoursRows(data)),
                    "labor_rows", LaborRows(data)),
                    "labor_total_cell", LaborTotal(data))
    /\ locals' = Assign(locals, "labor_total", LaborTotal(data))
    /\ pc' = "subcontractors"
    /\ UNCHANGED <<data, result, past, callVars, apiVars>>

SubcontractorsSection ==
    /\ pc = "subcontractors"
    /\ Truthy(data, "subcontractors")
    /\ ~ReadsString("subcontractors")
    /\ LET s  == SubcontractorTotal(data)
           t1 == Tier1Amount(s)
           t2 == Tier2Amount(s)
           t3 == Tier3Amount(s)
           l1 == Assign(locals, "subcontractor_total", s)
           l2 == Assign(l1, "tier1_amount", t1)
           l3 == Assign(l2, "tier2_amount", t2)
           l4 == Assign(l3, "tier3_amount", t3)
           w1 == Assign(ws, "subcontractor_rows",
                        SubcontractorRows(data))
           w2 == Assign(w1, "subcontractor_total_cell", s)
           w3 == Assign(w2, "tier_amount_cells", <<t1, t2, t3>>)
           w4 == Assign(w3, "tier_charge_cells",
                        <<Pct(t1, tier1_rate), Pct(t2, tier2_rate), Pct(t3, tier3_rate)>>)
       IN  /\ locals' = Assign(l4, "ohp_total", OhpTotal(t1, t2, t3))
           /\ ws' = Assign(w4, "ohp_total_cell", OhpTotal(t1, t2, t3))
    /\ pc' = "general_requirements"
    /\ UNCHANGED <<data, result, past, callVars, apiVars>>

NoSubcontractors ==
    /\ pc = "subcontractors"
    /\ ~Truthy(data, "subcontractors")
    /\ pc' = "general_requirements"
    /\ UNCHANGED <<data, locals, ws, result, past, callVars, apiVars>>

GeneralRequirementsSection ==
    /\ pc = "general_requirements"
    /\ Truthy(data, "general_requirements")
    /\ ~ReadsString("general_requirements")
    /\ ws' = Assign(Assign(ws, "general_requirements_rows",
                           UnitPriceRows(data, "general_requirements")),
                    "general_requirements_total_cell",
                    CategoryTotal(data, "general_requirements"))
    /\ pc' = "direct"
    /\ UNCHANGED <<data, locals, result, past, callVars, apiVars>>

NoGeneralRequirements ==
    /\ pc = "general_requirements"
    /\ ~Truthy(data, "general_requirements")
    /\ pc' = "direct"
    /\ UNCHANGED <<data, locals, ws, result, past, callVars, apiVars>>

\* variant: the subcontractors' work counted into the direct cost
DirectCost_WithSubcontractors ==
    /\ pc = "direct"
    /\ LET m  == CategoryTotal(data, "materials")
           e  == CategoryTotal(data, "equipment")
           g  == CategoryTotal(data, "general_requirements")
           t  == TotalDirectCost(m, e, locals["labor_total"], g) + SubcontractorTotal(data)
           l1 == Assign(locals, "materials_total", m)
           l2 == Assign(l1, "equipment_total", e)
           l3 == Assign(l2, "general_req_total", g)
       IN  /\ locals' = Assign(l3, "total_direct_cost", t)
           /\ ws' = Assign(ws, "total_direct_cost_cell", t)
    /\ pc' = "overhead"
    /\ UNCHANGED <<data, result, past, callVars, apiVars>>

DirectCost ==
    /\ pc = "direct"
    /\ LET m  == CategoryTotal(data, "materials")
           e  == CategoryTotal(data, "equipment")
           g  == CategoryTotal(data, "general_requirements")
           t  == TotalDirectCost(m, e, locals["labor_total"], g)
           l1 == Assign(locals, "materials_total", m)
           l2 == Assign(l1, "equipment_total", e)
           l3 == Assign(l2, "general_req_total", g)
       IN  /\ locals' = Assign(l3, "total_direct_cost", t)
           /\ ws' = Assign(ws, "total_direct_cost_cell", t)
    /\ pc' = "overhead"
    /\ UNCHANGED <<data, result, past, callVars, apiVars>>

Overhead ==
    /\ pc = "overhead"
    /\ LET a == Pct(locals["total_direct_cost"], overhead_rate)
       IN  /\ locals' = Assign(locals, "overhead_amount", a)
           /\ ws' = Assign(ws, "overhead_cell", a)
    /\ pc' = "profit"
    /\ UNCHANGED <<data, result, past, callVars, apiVars>>

\* variant: the profit taken on direct cost plus overhead
Profit_OnCostPlusOverhead ==
    /\ pc = "profit"
    /\ LET a == Pct(locals["total_direct_cost"] + locals["overhead_amount"], profit_rate)
       IN  /\ locals' = Assign(locals, "profit_amount", a)
           /\ ws' = Assign(ws, "profit_cell", a)
    /\ pc' = "grand"
    /\ UNCHANGED <<data, result, past, callVars, apiVars>>

Profit ==
    /\ pc = "profit"
    /\ LET a == Pct(locals["total_direct_cost"], profit_rate)
       IN  /\ locals' = Assign(locals, "profit_amount", a)
           /\ ws' = Assign(ws, "profit_cell", a)
    /\ pc' = "grand"
    /\ UNCHANGED <<data, result, past, callVars, apiVars>>

GrandTotal ==
    /\ pc = "grand"
    /\ LET base == locals["total_direct_cost"] + locals["overhead_amount"]
                   + locals["profit_amount"]
           s    == SubcontractorTotal(data)
           o    == OhpInline(s)
       IN  IF Truthy(data, "subcontractors")
           THEN /\ locals' = Assign(Assign(Assign(locals, "subcontractor_total", s),
                                           "ohp_total", o),
                                    "grand_total", base + (s + o))
                /\ ws' = Assign(Assign(ws, "grand_total_cell", base + (s + o)),
                                "total_cost_cell", base + (s + o))
           ELSE /\ locals' = Assign(locals, "grand_total", base)
                /\ ws' = Assign(ws, "grand_total_cell", base)
    /\ pc' = "save"
    /\ UNCHANGED <<data, result, past, callVars, apiVars>>

Save ==
    /\ pc = "save"
    /\ result' = output_file
    /\ past' = Append(past, [data |-> data, strings |-> strings, ws |-> ws,
                              result |-> output_file])
    /\ pc' = "done"
    /\ UNCHANGED <<data, locals, ws, callVars, apiVars>>

Next ==
    \/ MaterialsSection
    \/ EquipmentSection
    \/ LaborSection
    \/ SubcontractorsSection
    \/ NoSubcontractors
    \/ GeneralRequirementsSection
    \/ NoGeneralRequirements
    \/ DirectCost
    \/ Overhead
    \/ Profit
    \/ GrandTotal
    \/ Save

Spec == Init /\ [][Next]_vars

(***************************************************************************)
(* Repeated calls, on inputs as parse_job_description returns them         *)
(***************************************************************************)
\* number of calls of create_excel_file in one behaviour
MaxCalls == 3

None == "None"

required_keys == {"title", "materials", "equipment", "labor", "general_requirements"}

\* the parsed responses the calls are made on; each also holds a title
CallData ==
    { [materials |-> <<[qty |-> 2, unit_price |-> Dollars(100)]>>,
       equipment |-> <<>>, labor |-> <<>>, general_requirements |-> <<>>],
      [materials |-> <<>>, equipment |-> <<>>, labor |-> <<>>,
       general_requirements |-> <<[qty |-> 1, unit_price |-> Dollars(250)]>>,
       subcontractors |-> <<[qty |-> 1, price |-> Dollars(50000)]>>],
      [materials |-> <<>>,
       equipment |-> <<[qty |-> 3, unit_price |-> Dollars(-40), duration |-> 2,
                        duration_unit |-> "days"]>>,
       labor |-> <<[workers |-> 2, hours_per_day |-> 8, days |-> 5,
                    hourly_rate |-> Dollars(50)]>>,
       general_requirements |-> <<>>],
      [materials |-> <<[qty |-> 2, unit_price |-> Dollars(100)]>>,
       subcontractors |-> <<[qty |-> 1, price |-> Dollars(50000)]>>] }

\* the places of d that hold a number
NumberPositions(d) ==
    { pos \in (DOMAIN d) \X (1..1) \X (LaborKeys \cup {"qty", "unit_price", "price", "duration"}) :
        pos[2] <= Len(d[pos[1]]) /\ pos[3] \in DOMAIN d[pos[1]][pos[2]] }

\* a parsed response and the places where it holds a string for a number;
\* json.loads accepts both, and the prompt alone asks for numbers
CallInputs ==
    { <<d, S>> : d \in CallData, S \in {{}} } \cup
    { <<d[1], {d[2]}>> : d \in { <<c, pos>> \in CallData \X
                                   (Categories \X (1..1) \X
                                    (LaborKeys \cup {"qty", "unit_price", "price", "duration"})) :
                                   pos \in NumberPositions(c) } }

InitCalls ==
    /\ \E inp \in CallInputs : data = inp[1] /\ strings = inp[2]
    /\ pc = "validate"
    /\ locals = <<>>
    /\ ws = <<>>
    /\ result = "running"
    /\ past = <<>>
    /\ ncalls = 1
    /\ ApiIdle

\* parse_job_description: every required key is in the parsed response (the
\* title is in every response of CallData); the caller then renders it
Validated ==
    /\ pc = "validate"
    /\ required_keys \ {"title"} \subseteq DOMAIN data
    /\ pc' = "materials"
    /\ UNCHANGED <<data, locals, ws, result, past, callVars, apiVars>>

\* parse_job_description returns None on a missing key; nothing is rendered
MissingKeys ==
    /\ pc = "validate"
    /\ ~(required_keys \ {"title"} \subseteq DOMAIN data)
    /\ result' = None
    /\ pc' = "rejected"
    /\ UNCHANGED <<data, locals, ws, past, callVars, apiVars>>

\* except Exception: return None; the workbook is never saved
Raise ==
    /\ pc \in Categories
    /\ pc \in {"subcontractors", "general_requirements"} => Truthy(data, pc)
    /\ ReadsString(pc)
    /\ result' = None
    /\ past' = Append(past, [data |-> data, strings |-> strings, ws |-> ws,
                              result |-> None])
    /\ pc' = "failed"
    /\ UNCHANGED <<data, locals, ws, callVars, apiVars>>

\* variant: one workbook shared by all calls
Invoke_SharedWorkbook ==
    /\ pc \in {"done", "failed", "rejected"}
    /\ ncalls < MaxCalls
    /\ \E inp \in CallInputs : data' = inp[1] /\ strings' = inp[2]
    /\ ncalls' = ncalls + 1
    /\ locals' = <<>>
    /\ result' = "running"
    /\ pc' = "validate"
    /\ UNCHANGED <<ws, past, apiVars>>

\* the next call: a new frame of locals and a new Workbook()
Invoke ==
    /\ pc \in {"done", "failed", "rejected"}
    /\ ncalls < MaxCalls
    /\ \E inp \in CallInputs : data' = inp[1] /\ strings' = inp[2]
    /\ ncalls' = ncalls + 1
    /\ locals' = <<>>
    /\ ws' = <<>>
    /\ result' = "running"
    /\ pc' = "validate"
    /\ UNCHANGED <<past, apiVars>>

NextCalls ==
    \/ Validated
    \/ MissingKeys
    \/ MaterialsSection
    \/ EquipmentSection
    \/ LaborSection
    \/ SubcontractorsSection
    \/ NoSubcontractors
    \/ GeneralRequirementsSection
    \/ NoGeneralRequirements
    \/ DirectCost
    \/ Overhead
    \/ Profit
    \/ GrandTotal
    \/ Save
    \/ Raise
    \/ Invoke

SpecCalls == InitCalls /\ [][NextCalls]_vars

(***************************************************************************)
(* clean_pdf_text (src/change_order_generator.py 81-98)                    *)
(*                                                                         *)
(* A text is a sequence of character codes.  The alphabet has a letter, a  *)
(* space, a newline, a tab (a control character that is whitespace) and    *)
(* NUL (a control character that is not).                                  *)
(***************************************************************************)
\* longest input text
MaxLen == 5

Alphabet == {0, 9, 10, 32, 97}

Texts == UNION {[1..n -> Alphabet] : n \in 0..MaxLen}

\* str.isspace() and \s on the codes below 128
IsSpace(c) == c \in {9, 10, 11, 12, 13, 28, 29, 30, 31, 32}

\* the line boundaries of str.splitlines() below 128
LineBreaks == {10, 11, 12, 13, 28, 29, 30}

RECURSIVE LStrip(_)
LStrip(t) == IF t # <<>> /\ IsSpace(Head(t)) THEN LStrip(Tail(t)) ELSE t

RECURSIVE RStrip(_)
RStrip(t) ==
    IF t # <<>> /\ IsSpace(t[Len(t)]) THEN RStrip(SubSeq(t, 1, Len(t) - 1)) ELSE t

\* str.strip()
Strip(t) == RStrip(LStrip(t))

RECURSIVE SplitLines(_)
SplitLines(t) ==
    IF t = <<>> THEN <<>>
    ELSE LET breaks == {i \in 1..Len(t) : t[i] \in LineBreaks}
         IN  IF breaks = {} THEN <<t>>
             ELSE LET n == CHOOSE i \in breaks : \A j \in breaks : i <= j
                  IN  <<SubSeq(t, 1, n - 1)>> \o SplitLines(SubSeq(t, n + 1, Len(t)))

RECURSIVE Join(_)
Join(lines) ==
    IF lines = <<>> THEN <<>>
    ELSE IF Len(lines) = 1 THEN lines[1]
    ELSE lines[1] \o <<10>> \o Join(Tail(lines))

\* line 87: the lines that are not blank, joined by newlines
NonBlankLines(t) == Join(SelectSeq(SplitLines(t), LAMBDA line : Strip(line) # <<>>))

\* line 91: re.sub(r'\s+', ' ', text)
RECURSIVE CollapseWhitespace(_)
CollapseWhitespace(t) ==
    IF t = <<>> THEN <<>>
    ELSE IF IsSpace(Head(t)) THEN <<32>> \o CollapseWhitespace(LStrip(Tail(t)))
         ELSE <<Head(t)>> \o CollapseWhitespace(Tail(t))

\* line 92: re.sub(r'\s+\n', '\n', text); in a run of whitespace everything
\* up to its last newline is replaced, if something precedes that newline
RECURSIVE SubSpaceNewline(_)
SubSpaceNewline(t) ==
    IF t = <<>> THEN <<>>
    ELSE IF ~IsSpace(Head(t)) THEN <<Head(t)>> \o SubSpaceNewline(Tail(t))
    ELSE LET run  == Len(t) - Len(LStrip(t))
             ends == {k \in 2..run : t[k] = 10}
             rest == SubSpaceNewline(SubSeq(t, run + 1, Len(t)))
         IN  IF ends = {} THEN SubSeq(t, 1, run) \o rest
             ELSE LET k == CHOOSE i \in ends : \A j \in ends : j <= i
                  IN  <<10>> \o SubSeq(t, k + 1, run) \o rest

\* line 93: re.sub(r'\n\s+', '\n', text)
RECURSIVE SubNewlineSpace(_)
SubNewlineSpace(t) ==
    IF t = <<>> THEN <<>>
    ELSE IF Head(t) = 10 /\ Len(t) > 1 /\ IsSpace(t[2])
         THEN <<10>> \o SubNewlineSpace(LStrip(Tail(t)))
         ELSE <<Head(t)>> \o SubNewlineSpace(Tail(t))

\* line 96: keep ord(char) >= 32 and the newline
RemoveControl(t) == SelectSeq(t, LAMBDA c : c >= 32 \/ c = 10)

clean_pdf_text(t) ==
    IF t = <<>> THEN <<>>
    ELSE Strip(RemoveControl(SubNewlineSpace(SubSpaceNewline(
             CollapseWhitespace(NonBlankLines(t))))))

InitClean ==
    /\ data = <<>>
    /\ pc = "clean.start"
    /\ \E t \in Texts : \E none \in BOOLEAN :
          /\ none => t = <<>>
          /\ locals = [text |-> t, text_is_none |-> none]
    /\ ws = <<>>
    /\ result = "running"
    /\ strings = {}
    /\ past = <<>>
    /\ ncalls = 0
    /\ ApiIdle

CleanStep(from, to, text) ==
    /\ pc = from
    /\ pc' = to
    /\ locals' = [locals EXCEPT !["text"] = text]
    /\ UNCHANGED <<data, ws, result, past, callVars, apiVars>>

\* line 83: None and the empty string are falsy
CleanEmpty ==
    /\ locals["text_is_none"] \/ locals["text"] = <<>>
    /\ CleanStep("clean.start", "clean.returned", <<>>)

CleanLines ==
    /\ ~locals["text_is_none"] /\ locals["text"] # <<>>
    /\ CleanStep("clean.start", "clean.spaces", NonBlankLines(locals["text"]))

CleanSpaces ==
    /\ pc = "clean.spaces"
    /\ CleanStep("clean.spaces", "clean.before_newline",
                 CollapseWhitespace(locals["text"]))

CleanBeforeNewline ==
    /\ pc = "clean.before_newline"
    /\ CleanStep("clean.before_newline", "clean.after_newline",
                 SubSpaceNewline(locals["text"]))

CleanAfterNewline ==
    /\ pc = "clean.after_newline"
    /\ CleanStep("clean.after_newline", "clean.control",
                 SubNewlineSpace(locals["text"]))

CleanControl ==
    /\ pc = "clean.control"
    /\ CleanStep("clean.control", "clean.strip", RemoveControl(locals["text"]))

CleanReturn ==
    /\ pc = "clean.strip"
    /\ CleanStep("clean.strip", "clean.returned", Strip(locals["text"]))

NextClean ==
    \/ CleanEmpty
    \/ CleanLines
    \/ CleanSpaces
    \/ CleanBeforeNewline
    \/ CleanAfterNewline
    \/ CleanControl
    \/ CleanReturn

SpecClean == InitClean /\ [][NextClean]_vars

(***************************************************************************)
(* parse_job_description (src/change_order_generator.py 158-249)           *)
(*                                                                         *)
(* The description and the answer of the hosted model are the inputs.  An  *)
(* answer's content is an opening fence, a body and a closing fence; the   *)
(* body is text that is not JSON or a JSON value.  A JSON object carries   *)
(* its keys, an array its string elements and a string the key names that  *)
(* occur in it, which is what the Python operator in looks at for each of them.     *)
(***************************************************************************)
Descriptions == {"None", "", "   ", "replace 40 ft of pipe"}

KeyNames == {"title", "materials", "equipment", "labor", "general_requirements",
             "subcontractors"}

JsonKinds == {"object", "array", "string", "number"}

Bodies ==
    {[kind |-> "invalid", names |-> {}], [kind |-> "number", names |-> {}]}
        \cup [kind : {"object", "array", "string"}, names : SUBSET KeyNames]

Contents == [open : {"", "fence json", "fence"}, body : Bodies, close : {"", "fence"}]

Responses ==
    {[kind |-> k, content |-> <<>>] : k \in {"no_response", "no_choices", "no_content"}}
        \cup {[kind |-> "content", content |-> c] : c \in Contents}

\* lines 223-228: strip, cut a leading fence with the json tag, cut a
\* trailing fence, strip
Clean_KeepsClosingFence(c) == [c EXCEPT !.open = IF c.open = "fence json" THEN "" ELSE c.open]

Clean(c) == [c EXCEPT !.open = IF c.open = "fence json" THEN "" ELSE c.open, !.close = ""]

\* json.loads succeeds on the text
IsJson(c) == c.open = "" /\ c.close = "" /\ c.body.kind \in JsonKinds

InitParse ==
    /\ data = <<>>
    /\ pc = "parse.start"
    /\ \E d \in Descriptions : locals = [description |-> d]
    /\ ws = <<>>
    /\ result = "running"
    /\ strings = {}
    /\ past = <<>>
    /\ ncalls = 0
    /\ ApiIdle

ParseReturn(value) ==
    /\ pc' = "parse.returned"
    /\ result' = value

\* line 160: not description or not description.strip()
ParseEmptyDescription ==
    /\ pc = "parse.start"
    /\ locals["description"] \in {"None", "", "   "}
    /\ ParseReturn(None)
    /\ UNCHANGED <<data, locals, ws, past, callVars, apiVars>>

ParseTry ==
    /\ pc = "parse.start"
    /\ locals["description"] \notin {"None", "", "   "}
    /\ pc' = "parse.request"
    /\ UNCHANGED <<data, locals, ws, result, past, callVars, apiVars>>

\* the client cannot be built or the request raises: except Exception
OpenAiRaises ==
    /\ pc = "parse.request"
    /\ ParseReturn(None)
    /\ UNCHANGED <<data, locals, ws, past, callVars, apiVars>>

OpenAiResponds ==
    /\ pc = "parse.request"
    /\ \E resp \in Responses : locals' = Assign(locals, "response", resp)
    /\ pc' = "parse.response"
    /\ UNCHANGED <<data, ws, result, past, callVars, apiVars>>

\* line 211: not response or not response.choices
ParseEmptyResponse ==
    /\ pc = "parse.response"
    /\ locals["response"].kind \in {"no_response", "no_choices"}
    /\ ParseReturn(None)
    /\ UNCHANGED <<data, locals, ws, past, callVars, apiVars>>

\* line 216: not content
ParseEmptyContent ==
    /\ pc = "parse.response"
    /\ locals["response"].kind = "no_content"
    /\ ParseReturn(None)
    /\ UNCHANGED <<data, locals, ws, past, callVars, apiVars>>

ParseClean ==
    /\ pc = "parse.response"
    /\ locals["response"].kind = "content"
    /\ locals' = Assign(locals, "content", Clean(locals["response"].content))
    /\ pc' = "parse.json"
    /\ UNCHANGED <<data, ws, result, past, callVars, apiVars>>

\* json.loads raises JSONDecodeError
ParseJsonDecodeError ==
    /\ pc = "parse.json"
    /\ ~IsJson(locals["content"])
    /\ ParseReturn(None)
    /\ UNCHANGED <<data, locals, ws, past, callVars, apiVars>>

ParseJsonLoads ==
    /\ pc = "parse.json"
    /\ IsJson(locals["content"])
    /\ locals' = Assign(locals, "parsed_data", locals["content"].body)
    /\ pc' = "parse.keys"
    /\ UNCHANGED <<data, ws, result, past, callVars, apiVars>>

\* key not in parsed_data, on a number, raises TypeError: except Exception
ParseTypeError ==
    /\ pc = "parse.keys"
    /\ locals["parsed_data"].kind = "number"
    /\ ParseReturn(None)
    /\ UNCHANGED <<data, locals, ws, past, callVars, apiVars>>

ParseMissingKeys ==
    /\ pc = "parse.keys"
    /\ locals["parsed_data"].kind # "number"
    /\ {key \in {"title", "materials", "equipment", "labor", "general_requirements"} :
            key \notin locals["parsed_data"].names} # {}
    /\ ParseReturn(None)
    /\ UNCHANGED <<data, locals, ws, past, callVars, apiVars>>

ParseReturnsData ==
    /\ pc = "parse.keys"
    /\ locals["parsed_data"].kind # "number"
    /\ {key \in {"title", "materials", "equipment", "labor", "general_requirements"} :
            key \notin locals["parsed_data"].names} = {}
    /\ ParseReturn("parsed_data")
    /\ UNCHANGED <<data, locals, ws, past, callVars, apiVars>>

NextParse ==
    \/ ParseEmptyDescription
    \/ ParseTry
    \/ OpenAiRaises
    \/ OpenAiResponds
    \/ ParseEmptyResponse
    \/ ParseEmptyContent
    \/ ParseClean
    \/ ParseJsonDecodeError
    \/ ParseJsonLoads
    \/ ParseTypeError
    \/ ParseMissingKeys
    \/ ParseReturnsData

SpecParse == InitParse /\ [][NextParse]_vars

(***************************************************************************)
(* The web service (src/api.py, src/api_vercel.py) and main()              *)
(*                                                                         *)
(* A request is served by one handler.  extract_text_from_pdf,             *)
(* parse_job_description, create_excel_file and the storage upload are     *)
(* steps whose outcome (None or a value, success or an exception) is       *)
(* chosen at the step.  The workbook a request renders is named by the     *)
(* request: <<"workbook", r>> is the workbook made from the data parsed    *)
(* for request r.                                                          *)
(*                                                                         *)
(* src/api.py binds no name `logger`: every logger.info or logger.error    *)
(* it reaches raises NameError.  A request here is a call of the handler;  *)
(* the log_requests middleware of src/api.py (69-76), which names logger   *)
(* as well, is not part of any handler and is left out.                    *)
(***************************************************************************)
\* number of requests in one behaviour
MaxRequests == 2

\* last second of the wall clock
MaxClock == 1

Handlers == {"api.pdf", "api.text", "vercel.pdf", "vercel.text", "main"}

Uploading == {"api.pdf", "vercel.pdf", "vercel.text"}

PdfTemp(r) == <<"tmp", r, "pdf">>

XlsxTemp(r) == <<"tmp", r, "xlsx">>

\* generate_unique_filename (timestamp and uuid) in src/api.py;
\* change_order_<timestamp>.xlsx in src/api_vercel.py
BlobName(h, r, t) == IF h = "api.pdf" THEN <<t, r>> ELSE <<t, 0>>

Remove(f, k) == Restrict(f, (DOMAIN f) \ {k})

NewRequest(h) ==
    [h |-> h, pc |-> "start", status |-> 0, cause |-> "", parsed |-> "unset",
     created |-> "unset", calls |-> <<>>, blob |-> <<>>, link |-> <<>>]

\* raise HTTPException(status) or return; the request is over
Respond(req, status, cause) ==
    [req EXCEPT !.pc = "done", !.status = status, !.cause = cause]

Called(req, op) == [req EXCEPT !.calls = Append(req.calls, op)]

rollup == <<data, pc, locals, ws, result, past, callVars>>

InitApi ==
    /\ data = <<>>
    /\ pc = "idle"
    /\ locals = <<>>
    /\ ws = <<>>
    /\ result = "running"
    /\ strings = {}
    /\ past = <<>>
    /\ ncalls = 0
    /\ ApiIdle

Arrive ==
    /\ Len(reqs) < MaxRequests
    /\ \E h \in Handlers : reqs' = Append(reqs, NewRequest(h))
    /\ UNCHANGED <<files, bucket, now, rollup>>

Tick ==
    /\ now < MaxClock
    /\ now' = now + 1
    /\ UNCHANGED <<reqs, files, bucket, rollup>>

\* api.py generate_from_text: logger.info at line 175 raises NameError, the
\* handler at 215 calls logger.error, which raises NameError again
ApiTextNameError ==
    \E r \in 1..Len(reqs) :
        /\ reqs[r].h = "api.text"
        /\ reqs[r].pc = "start"
        /\ reqs' = [reqs EXCEPT ![r] = Respond(reqs[r], 500, "name_error")]
        /\ UNCHANGED <<files, bucket, now, rollup>>

\* the file name does not end with .pdf: HTTPException(400) outside the try
NotPdf ==
    \E r \in 1..Len(reqs) :
        /\ reqs[r].h \in {"api.pdf", "vercel.pdf"}
        /\ reqs[r].pc = "start"
        /\ reqs' = [reqs EXCEPT ![r] = Respond(reqs[r], 400, "not_pdf")]
        /\ UNCHANGED <<files, bucket, now, rollup>>

\* NamedTemporaryFile(delete=False, suffix='.pdf') and the copy of the upload
PdfReceived ==
    \E r \in 1..Len(reqs) :
        /\ reqs[r].h \in {"api.pdf", "vercel.pdf"}
        /\ reqs[r].pc = "start"
        /\ files' = Assign(files, PdfTemp(r), <<"pdf", r>>)
        /\ reqs' = [reqs EXCEPT ![r].pc = "extract"]
        /\ UNCHANGED <<bucket, now, rollup>>

\* extract_text_from_pdf returns None: HTTPException(400) raised inside the
\* try and turned into HTTPException(500) by `except Exception`
PdfNoText ==
    \E r \in 1..Len(reqs) :
        /\ reqs[r].pc = "extract"
        /\ reqs' = [reqs EXCEPT ![r] = Respond(reqs[r], 500, "no_text")]
        /\ UNCHANGED <<files, bucket, now, rollup>>

PdfText ==
    \E r \in 1..Len(reqs) :
        /\ reqs[r].pc = "extract"
        /\ reqs' = [reqs EXCEPT ![r].pc = "parse"]
        /\ UNCHANGED <<files, bucket, now, rollup>>

\* api_vercel.py generate_from_text: HTTPException(400) for an empty or
\* blank description, raised inside the try and turned into 500
TextEmpty ==
    \E r \in 1..Len(reqs) :
        /\ reqs[r].h = "vercel.text"
        /\ reqs[r].pc = "start"
        /\ reqs' = [reqs EXCEPT ![r] = Respond(reqs[r], 500, "empty_description")]
        /\ UNCHANGED <<files, bucket, now, rollup>>

TextAccepted ==
    \E r \in 1..Len(reqs) :
        /\ reqs[r].h = "vercel.text"
        /\ reqs[r].pc = "start"
        /\ reqs' = [reqs EXCEPT ![r].pc = "parse"]
        /\ UNCHANGED <<files, bucket, now, rollup>>

\* main(): get_user_input or extract_text_from_pdf gave nothing
MainNoDescription ==
    \E r \in 1..Len(reqs) :
        /\ reqs[r].h = "main"
        /\ reqs[r].pc = "start"
        /\ reqs' = [reqs EXCEPT ![r] = Respond(reqs[r], 0, "no_description")]
        /\ UNCHANGED <<files, bucket, now, rollup>>

MainDescription ==
    \E r \in 1..Len(reqs) :
        /\ reqs[r].h = "main"
        /\ reqs[r].pc = "start"
        /\ reqs' = [reqs EXCEPT ![r].pc = "parse"]
        /\ UNCHANGED <<files, bucket, now, rollup>>

\* variant: the result of parse_job_description used without the None check
ParseNone_Unchecked ==
    \E r \in 1..Len(reqs) :
        /\ reqs[r].pc = "parse"
        /\ reqs' = [reqs EXCEPT ![r] =
                        [Called(reqs[r], "parse") EXCEPT !.parsed = "None", !.pc = "create"]]
        /\ UNCHANGED <<files, bucket, now, rollup>>

\* parse_job_description returns None: `if not parsed_data` raises
\* HTTPException(400), turned into 500; main() returns
ParseNone ==
    \E r \in 1..Len(reqs) :
        /\ reqs[r].pc = "parse"
        /\ reqs' = [reqs EXCEPT ![r] =
                        [Respond(Called(reqs[r], "parse"),
                                 IF reqs[r].h = "main" THEN 0 ELSE 500, "parse_failed")
                            EXCEPT !.parsed = "None"]]
        /\ UNCHANGED <<files, bucket, now, rollup>>

ParseData ==
    \E r \in 1..Len(reqs) :
        /\ reqs[r].pc = "parse"
        /\ reqs' = [reqs EXCEPT ![r] =
                        [Called(reqs[r], "parse") EXCEPT !.parsed = "data", !.pc = "create"]]
        /\ UNCHANGED <<files, bucket, now, rollup>>

\* the object name is taken from the clock, the temporary .xlsx is made and
\* create_excel_file saves the workbook into it
Create ==
    \E r \in 1..Len(reqs) :
        /\ reqs[r].h \in Uploading
        /\ reqs[r].pc = "create"
        /\ files' = Assign(files, XlsxTemp(r), <<"workbook", r>>)
        /\ reqs' = [reqs EXCEPT ![r] =
                        [Called(reqs[r], "create") EXCEPT
                            !.created = "path", !.pc = "upload",
                            !.blob = BlobName(reqs[r].h, r, now)]]
        /\ UNCHANGED <<bucket, now, rollup>>

\* create_excel_file returns None; the temporary file stays empty and the
\* handler does not look at the result
CreateFails ==
    \E r \in 1..Len(reqs) :
        /\ reqs[r].h \in Uploading
        /\ reqs[r].pc = "create"
        /\ files' = Assign(files, XlsxTemp(r), <<"empty", r>>)
        /\ reqs' = [reqs EXCEPT ![r] =
                        [Called(reqs[r], "create") EXCEPT
                            !.created = "None", !.pc = "upload",
                            !.blob = BlobName(reqs[r].h, r, now)]]
        /\ UNCHANGED <<bucket, now, rollup>>

\* main(): create_excel_file(parsed_data) writes change_order.xlsx
MainCreate ==
    \E r \in 1..Len(reqs) :
        /\ reqs[r].h = "main"
        /\ reqs[r].pc = "create"
        /\ files' = Assign(files, <<"cwd", 0, "xlsx">>, <<"workbook", r>>)
        /\ reqs' = [reqs EXCEPT ![r] =
                        [Respond(Called(reqs[r], "create"), 0, "ok") EXCEPT !.created = "path"]]
        /\ UNCHANGED <<bucket, now, rollup>>

MainCreateFails ==
    \E r \in 1..Len(reqs) :
        /\ reqs[r].h = "main"
        /\ reqs[r].pc = "create"
        /\ reqs' = [reqs EXCEPT ![r] =
                        [Respond(Called(reqs[r], "create"), 0, "create_failed")
                            EXCEPT !.created = "None"]]
        /\ UNCHANGED <<files, bucket, now, rollup>>

\* blob.upload_from_filename(None): the upload is called and raises
UploadOfNone ==
    \E r \in 1..Len(reqs) :
        /\ reqs[r].pc = "upload"
        /\ reqs[r].created = "None"
        /\ reqs' = [reqs EXCEPT ![r] = Respond(Called(reqs[r], "upload"), 500, "create_failed")]
        /\ UNCHANGED <<files, bucket, now, rollup>>

\* the upload raises; the temporary files are left behind
UploadFails ==
    \E r \in 1..Len(reqs) :
        /\ reqs[r].pc = "upload"
        /\ reqs[r].created = "path"
        /\ reqs' = [reqs EXCEPT ![r] = Respond(Called(reqs[r], "upload"), 500, "upload_failed")]
        /\ UNCHANGED <<files, bucket, now, rollup>>

\* api.py upload_to_firebase: the object is stored, then logger.info at line
\* 102 raises NameError, and logger.error at 109 raises it again
ApiPdfUploadNameError ==
    \E r \in 1..Len(reqs) :
        /\ reqs[r].h = "api.pdf"
        /\ reqs[r].pc = "upload"
        /\ reqs[r].created = "path"
        /\ bucket' = Assign(bucket, reqs[r].blob, files[XlsxTemp(r)])
        /\ reqs' = [reqs EXCEPT ![r] = Respond(Called(reqs[r], "upload"), 500, "name_error")]
        /\ UNCHANGED <<files, now, rollup>>

\* api_vercel.py: blob.upload_from_filename(excel_path)
VercelUpload ==
    \E r \in 1..Len(reqs) :
        /\ reqs[r].h \in {"vercel.pdf", "vercel.text"}
        /\ reqs[r].pc = "upload"
        /\ reqs[r].created = "path"
        /\ bucket' = Assign(bucket, reqs[r].blob, files[XlsxTemp(r)])
        /\ reqs' = [reqs EXCEPT ![r] = [Called(reqs[r], "upload") EXCEPT !.pc = "cleanup"]]
        /\ UNCHANGED <<files, now, rollup>>

\* os.unlink of the temporary files and the success response
VercelRespond ==
    \E r \in 1..Len(reqs) :
        /\ reqs[r].pc = "cleanup"
        /\ files' = Remove(Remove(files, PdfTemp(r)), XlsxTemp(r))
        /\ reqs' = [reqs EXCEPT ![r] = [Respond(reqs[r], 200, "ok") EXCEPT !.link = reqs[r].blob]]
        /\ UNCHANGED <<bucket, now, rollup>>

NextApi ==
    \/ Arrive
    \/ Tick
    \/ ApiTextNameError
    \/ NotPdf
    \/ PdfReceived
    \/ PdfNoText
    \/ PdfText
    \/ TextEmpty
    \/ TextAccepted
    \/ MainNoDescription
    \/ MainDescription
    \/ ParseNone
    \/ ParseData
    \/ Create
    \/ CreateFails
    \/ MainCreate
    \/ MainCreateFails
    \/ UploadOfNone
    \/ UploadFails
    \/ ApiPdfUploadNameError
    \/ VercelUpload
    \/ VercelRespond

SpecApi == InitApi /\ [][NextApi]_vars

(***************************************************************************)
(* The monetary values create_excel_file(d) ends with, as one function of  *)
(* its input.  A call on an input without subcontractor items never binds  *)
(* subcontractor_total or ohp_total; the report carries 0 for both.        *)
(***************************************************************************)
Report(d) ==
    LET m    == CategoryTotal(d, "materials")
        e    == CategoryTotal(d, "equipment")
        l    == LaborTotal(d)
        g    == CategoryTotal(d, "general_requirements")
        t    == TotalDirectCost(m, e, l, g)
        oh   == Pct(t, overhead_rate)
        pr   == Pct(t, profit_rate)
        subs == Truthy(d, "subcontractors")
        s    == IF subs THEN SubcontractorTotal(d) ELSE 0
        o    == IF subs THEN OhpInline(s) ELSE 0
    IN  [materials_total |-> m, equipment_total |-> e, labor_total |-> l,
         general_req_total |-> g, total_direct_cost |-> t,
         overhead_amount |-> oh, profit_amount |-> pr,
         subcontractor_total |-> s, ohp_total |-> o,
         grand_total |-> IF subs THEN (t + oh + pr) + (s + o) ELSE t + oh + pr]

(***************************************************************************)
(* Properties                                                              *)
(***************************************************************************)
Bound(name) == name \in DOMAIN locals

\* C1: for every subcontractor subtotal s the three tier amounts are
\* tier1 = min(s, 10000), tier2 = min(max(0, s - 10000), 89000) and
\* tier3 = max(0, s - 99000); at s = 10000 tier2 and tier3 are 0, and at
\* s = 99000 tier2 is 89000 and tier3 is 0.
C1_TierSplit ==
    Bound("tier1_amount") =>
        LET s  == locals["subcontractor_total"]
            t1 == locals["tier1_amount"]
            t2 == locals["tier2_amount"]
            t3 == locals["tier3_amount"]
        IN  /\ t1 = (IF s <= 1000000 THEN s ELSE 1000000)
            /\ t2 = (IF s <= 1000000 THEN 0
                     ELSE IF s - 1000000 <= 8900000 THEN s - 1000000 ELSE 8900000)
            /\ t3 = (IF s <= 9900000 THEN 0 ELSE s - 9900000)
            /\ (s = 1000000 => t1 = 1000000 /\ t2 = 0 /\ t3 = 0)
            /\ (s = 9900000 => t1 = 1000000 /\ t2 = 8900000 /\ t3 = 0)
            /\ ws["tier_amount_cells"] = <<t1, t2, t3>>

C1_Witness ==
    /\ Bound("tier1_amount")
    /\ locals["subcontractor_total"] = Dollars(99000)
    /\ locals["tier2_amount"] = Dollars(89000)

\* C2: with subcontractor items present the grand total is
\* total_direct_cost + overhead + profit + subcontractor_subtotal + markup,
\* the markup being tier1 * 0.10 + tier2 * 0.05 + tier3 * 0.03; one item of
\* 1 x 50000 and nothing else gives markup 3000 and grand total 53000, and a
\* subtotal of 150000 gives markup 6980.
C2_GrandTotalWithSubcontractors ==
    (pc = "done" /\ Truthy(data, "subcontractors")) =>
        LET s      == locals["subcontractor_total"]
            t1     == IF s <= 1000000 THEN s ELSE 1000000
            t2     == IF s <= 1000000 THEN 0
                      ELSE IF s <= 9900000 THEN s - 1000000 ELSE 8900000
            t3     == IF s <= 9900000 THEN 0 ELSE s - 9900000
            markup == (t1 * 10 + t2 * 5 + t3 * 3) \div 100
        IN  /\ (t1 * 10 + t2 * 5 + t3 * 3) % 100 = 0
            /\ locals["ohp_total"] = markup
            /\ locals["grand_total"] =
                   locals["total_direct_cost"] + locals["overhead_amount"]
                 + locals["profit_amount"] + s + markup
            /\ ws["grand_total_cell"] = locals["grand_total"]
            /\ ((data["subcontractors"] = <<[qty |-> 1, price |-> Dollars(50000)]>>
                    /\ TotalItems(data) = 1)
                   => /\ locals["ohp_total"] = Dollars(3000)
                      /\ locals["grand_total"] = Dollars(53000))
            /\ (s = Dollars(150000) => locals["ohp_total"] = Dollars(6980))

C2_Witness ==
    /\ pc = "done"
    /\ Truthy(data, "subcontractors")
    /\ locals["subcontractor_total"] = Dollars(150000)
    /\ locals["total_direct_cost"] > 0

\* C3: without subcontractor items (the list absent or empty) overhead and
\* profit are each 10% of total_direct_cost and the grand total is
\* total_direct_cost + overhead + profit = 1.20 x total_direct_cost; no
\* subcontractor subtotal or markup is added.
C3_GrandTotalWithoutSubcontractors ==
    (pc = "done" /\ ~Truthy(data, "subcontractors")) =>
        LET t == locals["total_direct_cost"]
        IN  /\ 10 * locals["overhead_amount"] = t
            /\ 10 * locals["profit_amount"] = t
            /\ locals["grand_total"] =
                   t + locals["overhead_amount"] + locals["profit_amount"]
            /\ 100 * locals["grand_total"] = 120 * t
            /\ ws["grand_total_cell"] = locals["grand_total"]
            /\ ~Bound("subcontractor_total")
            /\ ~Bound("ohp_total")

C3_Witness ==
    /\ pc = "done"
    /\ "subcontractors" \in DOMAIN data
    /\ data["subcontractors"] = <<>>
    /\ locals["total_direct_cost"] = Dollars(200)
    /\ locals["grand_total"] = Dollars(240)

\* C4: total_direct_cost is the sum of the materials, equipment, labor and
\* general-requirements subtotals only; it, the overhead and the profit are
\* determined by the input with its subcontractor items taken away, so
\* adding, removing or changing subcontractor items leaves them unchanged.
C4_DirectCostFrame ==
    LET others == Restrict(data, (DOMAIN data) \ {"subcontractors"})
        direct == CategoryTotal(others, "materials") + CategoryTotal(others, "equipment")
                  + LaborTotal(others) + CategoryTotal(others, "general_requirements")
    IN  /\ Bound("total_direct_cost") =>
              /\ locals["total_direct_cost"] =
                     locals["materials_total"] + locals["equipment_total"]
                   + locals["labor_total"] + locals["general_req_total"]
              /\ locals["total_direct_cost"] = direct
        /\ Bound("overhead_amount") => 10 * locals["overhead_amount"] = direct
        /\ Bound("profit_amount") => 10 * locals["profit_amount"] = direct

C4_Witness ==
    /\ pc = "done"
    /\ Truthy(data, "subcontractors")
    /\ locals["subcontractor_total"] > 0
    /\ locals["total_direct_cost"] > 0
    /\ locals["profit_amount"] > 0

\* C5: for materials, equipment and general requirements the category
\* subtotal is the sum over the category's items of quantity x unit_price,
\* and a category whose list is empty or absent has subtotal 0 and
\* contributes 0 to total_direct_cost.
C5_CategorySubtotals ==
    Bound("total_direct_cost") =>
        \A k \in {"materials", "equipment", "general_requirements"} :
            LET name   == CASE k = "materials" -> "materials_total"
                            [] k = "equipment" -> "equipment_total"
                            [] k = "general_requirements" -> "general_req_total"
                items  == IF k \in DOMAIN data THEN data[k] ELSE <<>>
                qty(i) == IF "qty" \in DOMAIN items[i] THEN items[i]["qty"] ELSE 0
                up(i)  == IF "unit_price" \in DOMAIN items[i]
                          THEN items[i]["unit_price"] ELSE 0
                part(n) == IF n = name THEN 0 ELSE locals[n]
            IN  /\ locals[name] = Sum([i \in 1..Len(items) |-> qty(i) * up(i)])
                /\ (k = "general_requirements" /\ Len(items) = 0)
                       \/ ws[k \o "_total_cell"] = locals[name]
                /\ Len(items) = 0 =>
                      /\ locals[name] = 0
                      /\ locals["total_direct_cost"] =
                             part("materials_total") + part("equipment_total")
                           + part("general_req_total") + locals["labor_total"]

C5_Witness ==
    /\ Bound("total_direct_cost")
    /\ "equipment" \notin DOMAIN data
    /\ Truthy(data, "materials")
    /\ Len(data["materials"]) = 2
    /\ locals["materials_total"] = Dollars(400)
    /\ locals["equipment_total"] = 0
    /\ locals["total_direct_cost"] = Dollars(400)

\* C6: for every labor item total_hours = workers x hours_per_day x days and
\* the line total = total_hours x hourly_rate, and the labor subtotal used in
\* total_direct_cost equals the sum of the line totals of the labor rows
\* (2 workers x 8 h x 5 days at 50 give 80 hours and 4000).
C6_LaborTotals ==
    Bound("labor_total") =>
        LET items  == IF "labor" \in DOMAIN data THEN data["labor"] ELSE <<>>
            at(i, a) == IF a \in DOMAIN items[i] THEN items[i][a] ELSE 0
        IN  /\ Len(ws["labor_rows"]) = Len(items)
            /\ Len(ws["labor_hours"]) = Len(items)
            /\ \A i \in 1..Len(items) :
                  /\ ws["labor_hours"][i] =
                         at(i, "workers") * at(i, "hours_per_day") * at(i, "days")
                  /\ ws["labor_rows"][i] = ws["labor_hours"][i] * at(i, "hourly_rate")
                  /\ items[i] = [workers |-> 2, hours_per_day |-> 8, days |-> 5,
                                 hourly_rate |-> Dollars(50)]
                        => ws["labor_hours"][i] = 80 /\ ws["labor_rows"][i] = Dollars(4000)
            /\ locals["labor_total"] = Sum(ws["labor_rows"])
            /\ ws["labor_total_cell"] = Sum(ws["labor_rows"])
            /\ Bound("total_direct_cost") =>
                  locals["total_direct_cost"] =
                      locals["materials_total"] + locals["equipment_total"]
                    + locals["general_req_total"] + Sum(ws["labor_rows"])

C6_Witness ==
    /\ Bound("total_direct_cost")
    /\ Truthy(data, "labor")
    /\ Len(data["labor"]) = 2
    /\ ws["labor_hours"] = <<80, 12>>
    /\ ws["labor_rows"] = <<Dollars(4000), Dollars(-240)>>
    /\ locals["labor_total"] = Dollars(3760)

\* the subtotals a list of at most MaxItems subcontractor items can have
SubtotalProbes ==
    { Sum([i \in 1..Len(l) |-> SubcontractorLineTotal(l[i])]) :
        l \in Lists("subcontractors", MaxItems) }

\* C7: the tiered markup is monotonic non-decreasing in the subcontractor
\* subtotal, and has no jump at the 10000 and 99000 boundaries: just above a
\* boundary the markup exceeds the markup at the boundary (1000 and 5450) by
\* the excess times the next tier's rate (5% and 3%).
C7_MarkupMonotonicContinuous ==
    Bound("ohp_total") =>
        LET s == locals["subcontractor_total"]
            o == locals["ohp_total"]
            markup(x) == OhpTotal(Tier1Amount(x), Tier2Amount(x), Tier3Amount(x))
        IN  /\ \A x \in SubtotalProbes :
                  /\ x <= s => markup(x) <= o
                  /\ s <= x => o <= markup(x)
            /\ (s = Dollars(10000) => o = Dollars(1000))
            /\ (s = Dollars(99000) => o = Dollars(5450))
            /\ (s > Dollars(10000) /\ s <= Dollars(10001))
                  => 100 * (o - Dollars(1000)) = 5 * (s - Dollars(10000))
            /\ (s > Dollars(99000) /\ s <= Dollars(99001))
                  => 100 * (o - Dollars(5450)) = 3 * (s - Dollars(99000))

C7_Witness ==
    /\ Bound("ohp_total")
    /\ locals["subcontractor_total"] = Dollars(99001)
    /\ locals["ohp_total"] = Dollars(5450) + 3

\* the input with every absent numeric attribute written out as 0
ZeroFilled(d) ==
    [k \in DOMAIN d |->
        [i \in 1..Len(d[k]) |->
            [a \in NumericKeys(k) \cup DOMAIN d[k][i] |->
                IF a \in DOMAIN d[k][i] THEN d[k][i][a] ELSE 0]]]

\* C8: a line item lacking a numeric attribute (qty, unit_price, price,
\* workers, hours_per_day, days, hourly_rate) is computed as if the attribute
\* were 0: no error is raised and every total of the report equals the total
\* computed for the same input with the attribute set to 0.
C8_AbsentAttributeIsZero ==
    pc = "done" =>
        LET d0 == ZeroFilled(data)
            r0 == Report(d0)
        IN  /\ result = output_file
            /\ \A n \in (DOMAIN locals) \cap (DOMAIN r0) : locals[n] = r0[n]
            /\ Bound("grand_total")
            /\ ws["materials_rows"] = UnitPriceRows(d0, "materials")
            /\ ws["equipment_rows"] = UnitPriceRows(d0, "equipment")
            /\ ws["labor_hours"] = LaborHoursRows(d0)
            /\ ws["labor_rows"] = LaborRows(d0)
            /\ ws["grand_total_cell"] = r0.grand_total
            /\ Truthy(data, "subcontractors") =>
                  /\ ws["subcontractor_rows"] =
                         SubcontractorRows(d0)
                  /\ locals["tier1_amount"] = Tier1Amount(r0.subcontractor_total)
                  /\ locals["tier2_amount"] = Tier2Amount(r0.subcontractor_total)
                  /\ locals["tier3_amount"] = Tier3Amount(r0.subcontractor_total)
            /\ Truthy(data, "general_requirements") =>
                  ws["general_requirements_rows"] =
                      UnitPriceRows(d0, "general_requirements")

C8_Witness ==
    /\ pc = "done"
    /\ result = output_file
    /\ Truthy(data, "labor")
    /\ Truthy(data, "subcontractors")
    /\ data["labor"][1] = [workers |-> 2, hours_per_day |-> 8, hourly_rate |-> Dollars(50)]
    /\ data["subcontractors"][1] = [price |-> Dollars(10000)]
    /\ locals["grand_total"] = 0

\* every number of the input is non-negative
NonNegativeInput(d) ==
    \A k \in DOMAIN d : \A i \in 1..Len(d[k]) :
        \A a \in (DOMAIN d[k][i]) \ {"duration_unit"} : d[k][i][a] >= 0

\* C9: if every quantity, price, rate, worker count, hours and days value of
\* the input is non-negative, then every category subtotal, the
\* subcontractor subtotal, each tier amount and tier charge,
\* total_direct_cost, overhead, profit and the grand total are non-negative.
C9_NonNegativeTotals ==
    NonNegativeInput(data) =>
        /\ \A n \in DOMAIN locals : locals[n] >= 0
        /\ \A c \in (DOMAIN ws) \cap {"materials_total_cell", "equipment_total_cell",
                                      "labor_total_cell", "general_requirements_total_cell",
                                      "subcontractor_total_cell", "ohp_total_cell",
                                      "total_direct_cost_cell", "overhead_cell",
                                      "profit_cell", "grand_total_cell"} : ws[c] >= 0
        /\ \A c \in (DOMAIN ws) \cap {"tier_amount_cells", "tier_charge_cells"} :
              \A j \in 1..3 : ws[c][j] >= 0

C9_Witness ==
    /\ pc = "done"
    /\ NonNegativeInput(data)
    /\ Truthy(data, "subcontractors")
    /\ locals["subcontractor_total"] = Dollars(50000)
    /\ locals["tier3_amount"] = 0
    /\ locals["total_direct_cost"] > 0
    /\ locals["grand_total"] > Dollars(53000)

\* the local holding the subtotal of a category
SubtotalName(k) ==
    CASE k = "materials" -> "materials_total"
      [] k = "equipment" -> "equipment_total"
      [] k = "labor" -> "labor_total"
      [] k = "subcontractors" -> "subcontractor_total"
      [] k = "general_requirements" -> "general_req_total"

\* the line total of item i of category k
LineTotalOf(d, k, i) ==
    CASE k = "labor" -> LaborLineTotal(d[k][i])
      [] k = "subcontractors" -> SubcontractorLineTotal(d[k][i])
      [] OTHER -> UnitPriceTotal(d[k][i])

\* the input with the quantity (for labor: the workers) of item i of
\* category k set to 0, so that the line's total is 0
WithoutLine(d, k, i) ==
    [d EXCEPT ![k][i] = Assign(d[k][i], IF k = "labor" THEN "workers" ELSE "qty", 0)]

NegativeLines ==
    { <<k, i>> \in (DOMAIN data) \X (1..MaxItems) :
        i <= Len(data[k]) /\ LineTotalOf(data, k, i) < 0 }

\* what C10 says of a negative subcontractor subtotal s: tier1 = s,
\* tier2 = tier3 = 0, and the markup is 0.10 x s
NegativeSubtotalTiers ==
    (Truthy(data, "subcontractors") /\ locals["subcontractor_total"] < 0) =>
        /\ locals["tier1_amount"] = locals["subcontractor_total"]
        /\ locals["tier2_amount"] = 0
        /\ locals["tier3_amount"] = 0
        /\ locals["ohp_total"] < 0
        /\ 10 * locals["ohp_total"] = locals["subcontractor_total"]

\* C10 as claimed: negative or zero quantities and prices are neither
\* rejected nor clamped; a document is still produced, a negative line total
\* lowers its subtotal and the grand total by its magnitude, and a negative
\* subcontractor subtotal s yields tier1 = s, tier2 = tier3 = 0 and the
\* negative markup 0.10 x s.
C10_AsClaimed ==
    pc = "done" =>
        /\ result = output_file
        /\ NegativeSubtotalTiers
        /\ \A line \in NegativeLines :
              LET k  == line[1]
                  t  == LineTotalOf(data, k, line[2])
                  r1 == Report(WithoutLine(data, k, line[2]))
              IN  /\ locals[SubtotalName(k)] = r1[SubtotalName(k)] - (0 - t)
                  /\ locals["grand_total"] = r1.grand_total - (0 - t)

\* C10 (amended): negative or zero quantities and prices are neither
\* rejected nor clamped; a document is still produced, a negative line total
\* lowers its subtotal by its magnitude and the grand total by its magnitude
\* plus the markup on it, that is by 1.20 x its magnitude for a materials,
\* equipment, labor or general-requirements line, and for a subcontractor
\* line by its magnitude plus the drop of the tiered markup (between 1.03 and
\* 1.10 x its magnitude); a negative subcontractor subtotal s yields
\* tier1 = s, tier2 = tier3 = 0 and the negative markup 0.10 x s.
C10_NegativePassThrough ==
    pc = "done" =>
        /\ result = output_file
        /\ NegativeSubtotalTiers
        /\ \A line \in NegativeLines :
              LET k    == line[1]
                  t    == LineTotalOf(data, k, line[2])
                  r1   == Report(WithoutLine(data, k, line[2]))
                  drop == r1.grand_total - locals["grand_total"]
              IN  /\ locals[SubtotalName(k)] = r1[SubtotalName(k)] - (0 - t)
                  /\ k # "subcontractors" => 100 * drop = 120 * (0 - t)
                  /\ k = "subcontractors" =>
                        /\ drop = (0 - t) + (r1.ohp_total - locals["ohp_total"])
                        /\ 100 * drop >= 103 * (0 - t)
                        /\ 100 * drop <= 110 * (0 - t)

C10_Witness ==
    /\ pc = "done"
    /\ result = output_file
    /\ Truthy(data, "subcontractors")
    /\ Truthy(data, "materials")
    /\ locals["subcontractor_total"] = Dollars(-5000)
    /\ locals["ohp_total"] = Dollars(-500)
    /\ locals["materials_total"] = Dollars(-100)
    /\ locals["grand_total"] = Dollars(-5620)

\* C11: the roll-up does not mutate its input and is deterministic: during
\* a call of create_excel_file the data stays as passed, and two calls on
\* equal input end with equal values in every cell and the same result,
\* whatever calls ran in between.
C11_PureAndDeterministic ==
    /\ [][ncalls' = ncalls => (data' = data /\ strings' = strings)]_vars
    /\ [](\A i \in 1..Len(past) : \A j \in 1..Len(past) :
             (past[i].data = past[j].data /\ past[i].strings = past[j].strings)
                => (past[i].ws = past[j].ws /\ past[i].result = past[j].result))
    /\ [](pc = "done" =>
             /\ past[Len(past)].data = data
             /\ ws["grand_total_cell"] = Report(data).grand_total
             /\ ws["total_direct_cost_cell"] = Report(data).total_direct_cost)

C11_Witness ==
    /\ Len(past) = 3
    /\ pc = "done"
    /\ past[1].data = past[3].data
    /\ past[1].strings = {}
    /\ past[3].strings = {}
    /\ past[2].data # past[1].data
    /\ past[2].result = output_file
    /\ "total_cost_cell" \in DOMAIN past[2].ws
    /\ "total_cost_cell" \notin DOMAIN past[1].ws
    /\ past[1].ws["grand_total_cell"] = Dollars(240)

\* the input holds a string where the roll-up needs a number
Malformed == \E pos \in strings : pos[3] \in NumericKeys(pos[1])

\* C14: malformed input (a non-numeric value in a numeric line-item field)
\* is rejected by the input-construction step before any roll-up
\* computation starts; such input never reaches the calculator.
C14_AsClaimed ==
    Malformed => pc \in {"validate", "rejected"}

\* C15: an equipment line total is quantity x unit_price and does not depend
\* on duration or duration_unit: the equipment subtotal, total_direct_cost,
\* overhead, profit and grand total are those of the input with the
\* durations and duration units of its equipment items taken away.
C15_DurationIsDescriptive ==
    LET eq    == Get(data, "equipment", <<>>)
        bare  == [i \in 1..Len(eq) |->
                     Restrict(eq[i], (DOMAIN eq[i]) \ {"duration", "duration_unit"})]
        d0    == IF "equipment" \in DOMAIN data
                 THEN [data EXCEPT !["equipment"] = bare] ELSE data
        r0    == Report(d0)
        at(i, a) == IF a \in DOMAIN eq[i] THEN eq[i][a] ELSE 0
    IN  /\ "equipment_rows" \in DOMAIN ws =>
              /\ \A i \in 1..Len(eq) :
                     ws["equipment_rows"][i] = at(i, "qty") * at(i, "unit_price")
              /\ ws["equipment_total_cell"] = r0.equipment_total
        /\ \A n \in {"equipment_total", "total_direct_cost", "overhead_amount",
                     "profit_amount", "grand_total"} :
              Bound(n) => locals[n] = r0[n]

C15_Witness ==
    /\ pc = "done"
    /\ Truthy(data, "equipment")
    /\ Len(data["equipment"]) = 2
    /\ data["equipment"][1] = [qty |-> 3, unit_price |-> Dollars(-40), duration |-> 2,
                               duration_unit |-> "days"]
    /\ data["equipment"][2] = [qty |-> 3, unit_price |-> Dollars(-40), duration |-> 7,
                               duration_unit |-> "weeks"]
    /\ locals["equipment_total"] = Dollars(-240)
    /\ locals["grand_total"] = Dollars(-288)

\* C20: the subcontractor overhead-and-profit total is computed twice, for
\* the 'B' row from the tier amounts and limits and again for the grand
\* total with the literals 10000, 89000 and 99000; both give the same value,
\* so the grand total is direct cost + overhead + profit + the subcontractor
\* total of row 'A' + the OH&P total of row 'B'.
C20_TwoMarkupComputationsAgree ==
    (Truthy(data, "subcontractors") /\ Bound("grand_total")) =>
        /\ locals["ohp_total"] = ws["ohp_total_cell"]
        /\ locals["subcontractor_total"] = ws["subcontractor_total_cell"]
        /\ ws["ohp_total_cell"] =
               ws["tier_charge_cells"][1] + ws["tier_charge_cells"][2]
             + ws["tier_charge_cells"][3]
        /\ ws["grand_total_cell"] =
               ws["total_direct_cost_cell"] + ws["overhead_cell"] + ws["profit_cell"]
             + ws["subcontractor_total_cell"] + ws["ohp_total_cell"]
        /\ ws["total_cost_cell"] = ws["grand_total_cell"]

C20_Witness ==
    /\ pc = "done"
    /\ Truthy(data, "subcontractors")
    /\ ws["subcontractor_total_cell"] = Dollars(109000)
    /\ ws["tier_charge_cells"] = <<Dollars(1000), Dollars(4450), Dollars(300)>>
    /\ ws["ohp_total_cell"] = Dollars(5750)
    /\ ws["grand_total_cell"] = Dollars(114750)

(***************************************************************************)
(* Claims about the web service and main()                                 *)
(***************************************************************************)
Ops(req) == {req.calls[i] : i \in 1..Len(req.calls)}

\* C12 (as stated): for any interleaving of two requests, the storage object
\* behind the link a request returned holds the workbook rendered from that
\* request's own input, and a request's workbook file is not overwritten or
\* deleted by the other request before it is uploaded.
C12_AsClaimed ==
    \A r \in 1..Len(reqs) :
        /\ reqs[r].status = 200 =>
               /\ reqs[r].link \in DOMAIN bucket
               /\ bucket[reqs[r].link] = <<"workbook", r>>
        /\ (reqs[r].pc = "upload" /\ reqs[r].created = "path") =>
               /\ XlsxTemp(r) \in DOMAIN files
               /\ files[XlsxTemp(r)] = <<"workbook", r>>

\* C13: whenever parse_job_description returns None the request ends there:
\* create_excel_file and the upload are never invoked for it and it does not
\* succeed; a request that succeeds parsed its input, rendered and uploaded.
C13_NoRenderAfterFailedParse ==
    \A r \in 1..Len(reqs) :
        /\ reqs[r].parsed = "None" =>
               /\ reqs[r].pc = "done"
               /\ reqs[r].calls = <<"parse">>
               /\ reqs[r].status # 200
               /\ reqs[r].created = "unset"
               /\ XlsxTemp(r) \notin DOMAIN files
        /\ Ops(reqs[r]) \cap {"create", "upload"} # {} => reqs[r].parsed = "data"
        /\ reqs[r].status = 200 => reqs[r].parsed = "data"

C13_Witness ==
    /\ Len(reqs) = 2
    /\ reqs[1].h = "main"
    /\ reqs[2].h = "vercel.pdf"
    /\ \A r \in 1..2 : /\ reqs[r].pc = "done"
                       /\ reqs[r].parsed = "None"
                       /\ reqs[r].cause = "parse_failed"
    /\ bucket = <<>>

\* C17 (as stated): in every generate-from-pdf and generate-from-text
\* endpoint an empty description, a PDF without extractable text and a
\* description that fails to parse are answered with status 400.
C17_AsClaimed ==
    \A r \in 1..Len(reqs) :
        (/\ reqs[r].h # "main"
         /\ reqs[r].cause \in {"empty_description", "no_text", "parse_failed"})
            => reqs[r].status = 400

\* C18 (as stated): when create_excel_file returns None no upload is
\* attempted, and a success response follows parsing, workbook creation and
\* upload, in that order.
C18_AsClaimed ==
    \A r \in 1..Len(reqs) :
        /\ reqs[r].created = "None" => "upload" \notin Ops(reqs[r])
        /\ reqs[r].status = 200 => reqs[r].calls = <<"parse", "create", "upload">>

C21_TiersPartitionSubtotal ==
    Bound("tier3_amount") =>
        LET s  == locals["subcontractor_total"]
            t1 == locals["tier1_amount"]
            t2 == locals["tier2_amount"]
            t3 == locals["tier3_amount"]
        IN  /\ t1 + t2 + t3 = s
            /\ ws["tier_amount_cells"][1] + ws["tier_amount_cells"][2]
                   + ws["tier_amount_cells"][3] = ws["subcontractor_total_cell"]
            /\ s >= 0 => /\ 0 <= t1 /\ t1 <= Dollars(10000)
                         /\ 0 <= t2 /\ t2 <= Dollars(89000)
                         /\ t3 >= 0

C21_Witness ==
    /\ Bound("tier3_amount")
    /\ Len(data["subcontractors"]) = 2
    /\ locals["subcontractor_total"] = Dollars(-10000)
    /\ locals["tier1_amount"] = Dollars(-10000)
    /\ locals["tier2_amount"] = 0
    /\ locals["tier3_amount"] = 0

\* C22 (as stated): when a generate_from_pdf request has finished, on any
\* path, neither the temporary copy of the PDF nor the temporary workbook
\* file of that request exists any more.
C22_AsClaimed ==
    \A r \in 1..Len(reqs) :
        (reqs[r].h \in {"api.pdf", "vercel.pdf"} /\ reqs[r].pc = "done") =>
            /\ PdfTemp(r) \notin DOMAIN files
            /\ XlsxTemp(r) \notin DOMAIN files

\* C23 (as stated): for every input text the result of clean_pdf_text has no
\* leading or trailing whitespace, no two adjacent whitespace characters and
\* no character below code 32 other than newline, so cleaning the result
\* again returns it unchanged; for empty or None input the result is empty.
C23_AsClaimed ==
    pc = "clean.returned" =>
        LET out == locals["text"]
        IN  /\ out # <<>> => ~IsSpace(out[1]) /\ ~IsSpace(out[Len(out)])
            /\ \A i \in 1..(Len(out) - 1) : ~(IsSpace(out[i]) /\ IsSpace(out[i + 1]))
            /\ \A i \in 1..Len(out) : out[i] >= 32 \/ out[i] = 10
            /\ clean_pdf_text(out) = out
            /\ locals["text_is_none"] => out = <<>>

====
